---- MODULE Spec2Model ----
(***************************************************************************)
(* Job lifecycle of the auto-editor API (src/main.py).                     *)
(*                                                                         *)
(* The HTTP handlers are `async def` coroutines without any await, so each *)
(* handler body runs as one step of the event loop.  process_video and     *)
(* cleanup_file are plain functions handed to BackgroundTasks: they run in *)
(* worker threads after the response was sent and interleave with the      *)
(* handlers statement by statement.                                        *)
(***************************************************************************)
EXTENDS Naturals, FiniteSets, Sequences, TLC

\* ---- bounds of the model ----
MaxJobs == 1
MaxDownloads == 2

JobIds == 1..MaxJobs

\* ---- values ----
\* Python's None for the optional paths and URLs; they are tuples
None == <<>>
Idle == 0

InputPath(j) == <<"uploads", j>>
OutputPath(j) == <<"outputs", j>>

MsgUploadStart == "Video is being processed"
MsgUrlStart == "Downloading video from URL"
MsgUrlFailed == "Failed to download video from URL"
MsgUrlOk == "Video downloaded, processing started"
MsgWasabiOk == "Video processed and uploaded to Wasabi (presigned URL valid for 12 hours)"
MsgWasabiFailed == "Video processed (Wasabi upload failed)"
MsgLocalOk == "Video processed successfully"
MsgToolError == "Auto-editor error"
MsgTimeout == "Processing timeout (>1 hour)"
MsgException == "Processing error"

PresignedUrl(j) == <<"presigned", j>>

VARIABLES
    wasabiEnabled,  \* WASABI_ENABLED, fixed when the module is loaded
    jobs,           \* job_store.jobs: job id -> record, NoJob when absent
    disk,           \* the paths that exist under UPLOAD_DIR and OUTPUT_DIR
    issued,         \* the job ids uuid4 has handed out
    loop,           \* Idle, or the job whose URL fetch occupies the event loop
    pc,             \* position of each job's process_video background task
    upd,            \* the update_job call a background task is inside of
    child,          \* the auto-editor child process of each job
    fetch,          \* outcome of download_video_from_url per job
    place,          \* outcome of upload_to_wasabi per job
    escaped,        \* jobs whose process_video let an exception out
    dl,             \* per job: the cleanup_file tasks at each stage
    served,         \* per job: download requests answered with the file
    raised          \* a file deletion raised into its surrounding operation

vars == <<wasabiEnabled, jobs, disk, issued, loop, pc, upd, child, fetch,
          place, escaped, dl, served, raised>>

NoCall == [status |-> "", message |-> "", output_file |-> None,
           wasabi_url |-> None, site |-> "none"]
\* the stages of a cleanup_file task: it is to run; it has seen the path
NoDownloads == [cleanup |-> 0, unlink |-> 0]

Init ==
    /\ wasabiEnabled \in BOOLEAN
    /\ jobs = [j \in {} |-> NoCall]
    /\ disk = {}
    /\ issued = {}
    /\ loop = Idle
    /\ pc = [j \in JobIds |-> "none"]
    /\ upd = [j \in JobIds |-> NoCall]
    /\ child = [j \in JobIds |-> "none"]
    /\ fetch = [j \in JobIds |-> "none"]
    /\ place = [j \in JobIds |-> "none"]
    /\ escaped = {}
    /\ dl = [j \in JobIds |-> NoDownloads]
    /\ served = [j \in JobIds |-> 0]
    /\ raised = FALSE

\* ---- JobStore ----
add_job(js, j, status, message) ==
    [i \in DOMAIN js \cup {j} |->
        IF i = j THEN [status |-> status, message |-> message,
                       output_file |-> None, wasabi_url |-> None]
        ELSE js[i]]

\* update_job run in one piece (the handlers' calls, on the event loop)
update_job(js, j, status, message, output_file, wasabi_url) ==
    IF j \notin DOMAIN js THEN js
    ELSE [js EXCEPT ![j] =
            [status |-> status,
             message |-> message,
             output_file |-> IF output_file # None THEN output_file
                             ELSE js[j].output_file,
             wasabi_url |-> IF wasabi_url # None THEN wasabi_url
                            ELSE js[j].wasabi_url]]

\* del self.jobs[job_id]
del_job(js, j) == [i \in DOMAIN js \ {j} |-> js[i]]

\* uuid.uuid4(): an id no earlier request was given
FreshId(j) == j \notin issued /\ \A i \in JobIds : i < j => i \in issued

\* an HTTPException(status_code, detail)
HTTPException(code, detail) ==
    [code |-> code, detail |-> detail, status |-> "", message |-> "",
     output_file |-> None, wasabi_url |-> None]

\* a 200 response with a ProcessingStatus body
ProcessingStatus(status, message, output_file, wasabi_url) ==
    [code |-> 200, detail |-> "", status |-> status, message |-> message,
     output_file |-> output_file, wasabi_url |-> wasabi_url]

\* background_tasks.add_task(process_video, ...): the task waits for the
\* response to be sent and is then started in a worker thread
add_task(j) == [pc EXCEPT ![j] = "queued"]

\* ---- deleting files ----
\* Path.unlink() raises FileNotFoundError when the path is gone
unlink_raises(path) == path \notin disk

\* Propagates when the clauses around unlink catch nothing
Propagates_uncaught(raises, clause) == raises

\* try: path.unlink() / except <clause>: whether the exception leaves the
\* block. The clauses of the source are `except Exception` and the bare
\* `except`; both catch FileNotFoundError.
Propagates(raises, clause) ==
    raises /\ clause \notin {"except Exception", "except"}

\* ---- POST /process ----
\* the response of the handler for each fate of the uploaded file
process_video_response(file) ==
    CASE file = "nofilename" -> HTTPException(400, "No filename provided")
      [] file = "savefails" -> HTTPException(500, "Error saving file")
      [] file = "saved" -> ProcessingStatus("processing", "Video processing started",
                                            None, None)

\* process_video_endpoint calling process_video instead of add_task: the
\* tool has run (and here failed) when the handler returns
process_video_endpoint_inline(j) ==
    /\ loop = Idle
    /\ FreshId(j)
    /\ issued' = issued \cup {j}
    /\ jobs' = update_job(add_job(jobs, j, "processing", MsgUploadStart),
                          j, "failed", MsgToolError, None, None)
    /\ child' = [child EXCEPT ![j] = "exited"]
    /\ pc' = [pc EXCEPT ![j] = "done"]
    /\ UNCHANGED <<wasabiEnabled, disk, loop, upd, fetch, place, escaped,
                   dl, served, raised>>

process_video_endpoint(j) ==
    /\ loop = Idle
    /\ FreshId(j)
    /\ \E file \in {"nofilename", "savefails", "saved"} :
         CASE file = "nofilename" ->
                UNCHANGED <<jobs, disk, issued, pc>>
           [] file = "savefails" ->
                \* the file was opened for writing before the copy failed
                /\ issued' = issued \cup {j}
                /\ disk' = disk \cup {InputPath(j)}
                /\ UNCHANGED <<jobs, pc>>
           [] file = "saved" ->
                /\ issued' = issued \cup {j}
                /\ disk' = disk \cup {InputPath(j)}
                /\ jobs' = add_job(jobs, j, "processing", MsgUploadStart)
                /\ pc' = add_task(j)
    /\ UNCHANGED <<wasabiEnabled, loop, upd, child, fetch, place, escaped,
                   dl, served, raised>>

\* ---- POST /process-url ----
\* The handler calls requests.get itself: from add_job to the end of the
\* fetch the event loop is inside this handler.
\* process_url_begin registering the job as the upload handler does
process_url_begin_processing(j) ==
    /\ loop = Idle
    /\ FreshId(j)
    /\ issued' = issued \cup {j}
    /\ jobs' = add_job(jobs, j, "processing", MsgUploadStart)
    /\ loop' = j
    /\ UNCHANGED <<wasabiEnabled, disk, pc, upd, child, fetch, place,
                   escaped, dl, served, raised>>

process_url_begin(j) ==
    /\ loop = Idle
    /\ FreshId(j)
    /\ issued' = issued \cup {j}
    /\ jobs' = add_job(jobs, j, "downloading", MsgUrlStart)
    /\ loop' = j
    /\ UNCHANGED <<wasabiEnabled, disk, pc, upd, child, fetch, place,
                   escaped, dl, served, raised>>

\* download_video_from_url: True with the file written; False with no file
\* (request or status error) or with the part written before the stream broke
download_video_from_url(j, outcome) ==
    IF outcome = "refused" THEN disk ELSE disk \cup {InputPath(j)}

\* the response of the handler after the fetch
process_url_response(outcome) ==
    IF outcome # "ok" THEN HTTPException(400, MsgUrlFailed)
    ELSE ProcessingStatus("processing",
                          "Video download started and will be processed", None, None)

\* process_url_finish without the raise after a failed fetch: the handler
\* goes on to the "processing" update and queues the task
process_url_finish_noraise(j) ==
    /\ loop = j
    /\ \E outcome \in {"ok", "refused", "broken"} :
         /\ disk' = download_video_from_url(j, outcome)
         /\ fetch' = [fetch EXCEPT ![j] = IF outcome = "ok" THEN "ok" ELSE "failed"]
         /\ jobs' = update_job(jobs, j, "processing", MsgUrlOk, None, None)
         /\ pc' = add_task(j)
    /\ loop' = Idle
    /\ UNCHANGED <<wasabiEnabled, issued, upd, child, place, escaped, dl,
                   served, raised>>

process_url_finish(j) ==
    /\ loop = j
    /\ \E outcome \in {"ok", "refused", "broken"} :
         /\ disk' = download_video_from_url(j, outcome)
         /\ IF outcome # "ok"
            THEN /\ fetch' = [fetch EXCEPT ![j] = "failed"]
                 /\ jobs' = update_job(jobs, j, "failed", MsgUrlFailed, None, None)
                 /\ UNCHANGED pc
            ELSE /\ fetch' = [fetch EXCEPT ![j] = "ok"]
                 /\ jobs' = update_job(jobs, j, "processing", MsgUrlOk, None, None)
                 /\ pc' = add_task(j)
    /\ loop' = Idle
    /\ UNCHANGED <<wasabiEnabled, issued, upd, child, place, escaped, dl,
                   served, raised>>

\* ---- GET /status/{job_id} ----
\* the response in the current state
status_response(j) ==
    IF j \notin DOMAIN jobs THEN HTTPException(404, "Job not found")
    ELSE ProcessingStatus(jobs[j].status, jobs[j].message,
                          jobs[j].output_file, jobs[j].wasabi_url)

\* the handler only reads the registry
get_status(j) ==
    /\ loop = Idle
    /\ UNCHANGED vars

\* ---- GET /download/{job_id} ----
\* what the handler answers in the current state
\* download_result without the wasabi_url branch of lines 324-328
download_result_nourl(j) ==
    IF j \notin DOMAIN jobs THEN "notfound"
    ELSE IF jobs[j].status # "completed" THEN "notready"
    ELSE IF jobs[j].output_file = None \/ jobs[j].output_file \notin disk
         THEN "nofile"
         ELSE "file"

download_result(j) ==
    IF j \notin DOMAIN jobs THEN "notfound"
    ELSE IF jobs[j].status # "completed" THEN "notready"
    ELSE IF jobs[j].output_file = None \/ jobs[j].output_file \notin disk
         THEN IF jobs[j].wasabi_url # None THEN "gone" ELSE "nofile"
         ELSE "file"

download_response(j) ==
    LET r == download_result(j) IN
    CASE r = "notfound" -> HTTPException(404, "Job not found")
      [] r = "notready" -> HTTPException(400, jobs[j].status)
      [] r = "gone" -> HTTPException(410, "Local file has been removed after Wasabi upload")
      [] r = "nofile" -> HTTPException(404, "Output file not found")
      [] r = "file" -> [HTTPException(200, "FileResponse")
                           EXCEPT !.output_file = jobs[j].output_file]

\* the FileResponses handed out so far
RECURSIVE Served(_)
Served(n) == IF n = 0 THEN 0 ELSE served[n] + Served(n - 1)

download_video(j) ==
    /\ loop = Idle
    /\ IF download_result(j) = "file"
       THEN \* FileResponse(path=output_file), then cleanup_file as the
            \* background task of the response
            /\ Served(MaxJobs) < MaxDownloads
            /\ served' = [served EXCEPT ![j] = @ + 1]
            /\ dl' = [dl EXCEPT ![j].cleanup = @ + 1]
       ELSE UNCHANGED <<dl, served>>
    /\ UNCHANGED <<wasabiEnabled, jobs, disk, issued, loop, pc, upd, child,
                   fetch, place, escaped, raised>>

\* ---- cleanup_file, in a worker thread ----
\* if path.exists():
cleanup_file_exists(j) ==
    /\ dl[j].cleanup > 0
    /\ dl' = IF OutputPath(j) \in disk
             THEN [dl EXCEPT ![j].cleanup = @ - 1, ![j].unlink = @ + 1]
             ELSE [dl EXCEPT ![j].cleanup = @ - 1]
    /\ UNCHANGED <<wasabiEnabled, jobs, disk, issued, loop, pc, upd, child,
                   fetch, place, escaped, served, raised>>

\* path.unlink() inside try/except Exception: the handler prints and
\* returns, also when the path went away after the exists() test
cleanup_file_unlink(j) ==
    /\ dl[j].unlink > 0
    /\ disk' = disk \ {OutputPath(j)}
    /\ raised' = (raised \/ Propagates(unlink_raises(OutputPath(j)),
                                       "except Exception"))
    /\ dl' = [dl EXCEPT ![j].unlink = @ - 1]
    /\ UNCHANGED <<wasabiEnabled, jobs, issued, loop, pc, upd, child,
                   fetch, place, escaped, served>>

\* cleanup_response answering an absent id like a present one
cleanup_response_lenient(j) ==
    HTTPException(200, "Job cleaned up successfully")

\* ---- DELETE /cleanup/{job_id} ----
cleanup_response(j) ==
    IF j \notin DOMAIN jobs THEN HTTPException(404, "Job not found")
    ELSE HTTPException(200, "Job cleaned up successfully")

\* cleanup_job whose unlink is not inside try/except: with the file gone the
\* exception leaves the handler before the record is deleted
cleanup_job_uncaught(j) ==
    /\ loop = Idle
    /\ IF j \notin DOMAIN jobs
       THEN UNCHANGED <<jobs, disk, raised>>
       ELSE IF jobs[j].output_file # None /\ unlink_raises(jobs[j].output_file)
       THEN /\ raised' = TRUE
            /\ UNCHANGED <<jobs, disk>>
       ELSE /\ disk' = IF jobs[j].output_file # None
                       THEN disk \ {jobs[j].output_file} ELSE disk
            /\ jobs' = del_job(jobs, j)
            /\ UNCHANGED raised
    /\ UNCHANGED <<wasabiEnabled, issued, loop, pc, upd, child, fetch,
                   place, escaped, dl, served>>

cleanup_job(j) ==
    /\ loop = Idle
    /\ IF j \notin DOMAIN jobs
       THEN UNCHANGED <<jobs, disk, raised>>
       ELSE \* if job["output_file"]: unlink inside try/except: pass
            /\ disk' = IF jobs[j].output_file # None
                       THEN disk \ {jobs[j].output_file} ELSE disk
            /\ raised' = (raised \/ (jobs[j].output_file # None /\
                            Propagates(unlink_raises(jobs[j].output_file),
                                       "except")))
            /\ jobs' = del_job(jobs, j)
    /\ UNCHANGED <<wasabiEnabled, issued, loop, pc, upd, child, fetch,
                   place, escaped, dl, served>>

\* ---- process_video, in a worker thread ----
\* job_store.update_job(...) entered from process_video; site is the place
\* of the call: "uploaded" (line 159), "body" (168, 171, 173: inside the
\* try) or "handler" (176, 178: inside an except clause)
Call(status, message, output_file, wasabi_url, site) ==
    [status |-> status, message |-> message, output_file |-> output_file,
     wasabi_url |-> wasabi_url, site |-> site]

\* the statement after a call of update_job that returned
Return(site) == IF site = "uploaded" THEN "unlink_out" ELSE "finally"

\* start_tool with no `except Exception` clause: a failed spawn goes straight
\* to the finally clause and the record is left as it is
start_tool_uncaught(j) ==
    /\ loop = Idle
    /\ pc[j] = "queued"
    /\ \E spawned \in BOOLEAN :
         IF spawned
         THEN /\ child' = [child EXCEPT ![j] = "running"]
              /\ pc' = [pc EXCEPT ![j] = "tool"]
              /\ UNCHANGED escaped
         ELSE /\ child' = [child EXCEPT ![j] = "nospawn"]
              /\ pc' = [pc EXCEPT ![j] = "finally"]
              /\ escaped' = escaped \cup {j}
    /\ UNCHANGED <<wasabiEnabled, jobs, disk, issued, loop, upd, fetch, place,
                   dl, served, raised>>

\* subprocess.run(cmd, ...): the task is started once the response is out;
\* starting the child can itself fail (OSError), caught by `except Exception`
start_tool(j) ==
    /\ loop = Idle
    /\ pc[j] = "queued"
    /\ \E spawned \in BOOLEAN :
         IF spawned
         THEN /\ child' = [child EXCEPT ![j] = "running"]
              /\ pc' = [pc EXCEPT ![j] = "tool"]
              /\ UNCHANGED upd
         ELSE /\ child' = [child EXCEPT ![j] = "nospawn"]
              /\ pc' = [pc EXCEPT ![j] = "upd_check"]
              /\ upd' = [upd EXCEPT ![j] =
                           Call("failed", MsgException, None, None, "handler")]
    /\ UNCHANGED <<wasabiEnabled, jobs, disk, issued, loop, fetch, place,
                   escaped, dl, served, raised>>

\* the child exits before the deadline; exit status 0 leaves the output file
tool_exit(j) ==
    /\ pc[j] = "tool"
    /\ child' = [child EXCEPT ![j] = "exited"]
    /\ \E returncode \in {0, 1} :
         IF returncode = 0
         THEN /\ disk' = disk \cup {OutputPath(j)}
              /\ IF wasabiEnabled
                 THEN /\ pc' = [pc EXCEPT ![j] = "upload"]
                      /\ UNCHANGED upd
                 ELSE /\ pc' = [pc EXCEPT ![j] = "upd_check"]
                      /\ upd' = [upd EXCEPT ![j] =
                                   Call("completed", MsgLocalOk, OutputPath(j),
                                        None, "body")]
         ELSE /\ pc' = [pc EXCEPT ![j] = "upd_check"]
              /\ upd' = [upd EXCEPT ![j] =
                           Call("failed", MsgToolError, None, None, "body")]
              /\ UNCHANGED disk
    /\ UNCHANGED <<wasabiEnabled, jobs, issued, loop, fetch, place, escaped,
                   dl, served, raised>>

\* tool_timeout with no `except subprocess.TimeoutExpired` clause: the
\* timeout is reported by the generic clause
tool_timeout_generic(j) ==
    /\ pc[j] = "tool"
    /\ child' = [child EXCEPT ![j] = "killed"]
    /\ pc' = [pc EXCEPT ![j] = "upd_check"]
    /\ upd' = [upd EXCEPT ![j] =
                 Call("failed", MsgException, None, None, "handler")]
    /\ UNCHANGED <<wasabiEnabled, jobs, disk, issued, loop, fetch, place,
                   escaped, dl, served, raised>>

\* timeout=3600 expires: subprocess.run kills the child, waits for it and
\* raises TimeoutExpired
tool_timeout(j) ==
    /\ pc[j] = "tool"
    /\ child' = [child EXCEPT ![j] = "killed"]
    /\ pc' = [pc EXCEPT ![j] = "upd_check"]
    /\ upd' = [upd EXCEPT ![j] =
                 Call("failed", MsgTimeout, None, None, "handler")]
    /\ UNCHANGED <<wasabiEnabled, jobs, disk, issued, loop, fetch, place,
                   escaped, dl, served, raised>>

\* upload_to_wasabi whose failure fails the job instead of degrading it
upload_to_wasabi_fatal(j) ==
    /\ pc[j] = "upload"
    /\ \E outcome \in {"ok", "ClientError", "Exception"} :
         /\ place' = [place EXCEPT ![j] = outcome]
         /\ upd' = [upd EXCEPT ![j] =
                      IF outcome = "ok"
                      THEN Call("completed", MsgWasabiOk, OutputPath(j),
                                PresignedUrl(j), "uploaded")
                      ELSE Call("failed", MsgWasabiFailed, None, None, "body")]
    /\ pc' = [pc EXCEPT ![j] = "upd_check"]
    /\ UNCHANGED <<wasabiEnabled, jobs, disk, issued, loop, child, fetch,
                   escaped, dl, served, raised>>

\* wasabi_url = upload_to_wasabi(output_path, job_id): the URL, or None when
\* the upload or the presigning raised a ClientError or any other Exception
upload_to_wasabi(j) ==
    /\ pc[j] = "upload"
    /\ \E outcome \in {"ok", "ClientError", "Exception"} :
         /\ place' = [place EXCEPT ![j] = outcome]
         /\ upd' = [upd EXCEPT ![j] =
                      IF outcome = "ok"
                      THEN Call("completed", MsgWasabiOk, OutputPath(j),
                                PresignedUrl(j), "uploaded")
                      ELSE Call("completed", MsgWasabiFailed, OutputPath(j),
                                None, "body")]
    /\ pc' = [pc EXCEPT ![j] = "upd_check"]
    /\ UNCHANGED <<wasabiEnabled, jobs, disk, issued, loop, child, fetch,
                   escaped, dl, served, raised>>

\* a KeyError out of update_job: inside the try it is caught by
\* `except Exception`, whose handler calls update_job again; inside an
\* except clause it leaves process_video after the finally clause
KeyError(j) ==
    IF upd[j].site = "handler"
    THEN /\ escaped' = escaped \cup {j}
         /\ pc' = [pc EXCEPT ![j] = "finally"]
         /\ upd' = [upd EXCEPT ![j] = NoCall]
    ELSE /\ pc' = [pc EXCEPT ![j] = "upd_check"]
         /\ upd' = [upd EXCEPT ![j] =
                      Call("failed", MsgException, None, None, "handler")]
         /\ UNCHANGED escaped

\* update_job without its membership test
update_job_check_unguarded(j) ==
    /\ pc[j] = "upd_check"
    /\ pc' = [pc EXCEPT ![j] = "upd_status"]
    /\ UNCHANGED <<wasabiEnabled, jobs, disk, issued, loop, child, fetch,
                   place, escaped, dl, served, raised, upd>>

\* if job_id in self.jobs:
update_job_check(j) ==
    /\ pc[j] = "upd_check"
    /\ IF j \in DOMAIN jobs
       THEN /\ pc' = [pc EXCEPT ![j] = "upd_status"]
            /\ UNCHANGED upd
       ELSE /\ pc' = [pc EXCEPT ![j] = Return(upd[j].site)]
            /\ upd' = [upd EXCEPT ![j] = NoCall]
    /\ UNCHANGED <<wasabiEnabled, jobs, disk, issued, loop, child, fetch,
                   place, escaped, dl, served, raised>>

\* self.jobs[job_id]["status"] = status
update_job_status(j) ==
    /\ pc[j] = "upd_status"
    /\ IF j \in DOMAIN jobs
       THEN /\ jobs' = [jobs EXCEPT ![j].status = upd[j].status]
            /\ pc' = [pc EXCEPT ![j] = "upd_message"]
            /\ UNCHANGED <<upd, escaped>>
       ELSE /\ KeyError(j)
            /\ UNCHANGED jobs
    /\ UNCHANGED <<wasabiEnabled, disk, issued, loop, child, fetch, place,
                   dl, served, raised>>

\* the statement after self.jobs[job_id]["message"] = message
AfterMessage(call) ==
    IF call.output_file # None THEN "upd_output"
    ELSE IF call.wasabi_url # None THEN "upd_url"
    ELSE Return(call.site)

\* self.jobs[job_id]["message"] = message
update_job_message(j) ==
    /\ pc[j] = "upd_message"
    /\ IF j \in DOMAIN jobs
       THEN /\ jobs' = [jobs EXCEPT ![j].message = upd[j].message]
            /\ pc' = [pc EXCEPT ![j] = AfterMessage(upd[j])]
            /\ upd' = [upd EXCEPT ![j] =
                         IF AfterMessage(upd[j]) = Return(upd[j].site)
                         THEN NoCall ELSE @]
            /\ UNCHANGED escaped
       ELSE /\ KeyError(j)
            /\ UNCHANGED jobs
    /\ UNCHANGED <<wasabiEnabled, disk, issued, loop, child, fetch, place,
                   dl, served, raised>>

\* if output_file: self.jobs[job_id]["output_file"] = output_file
update_job_output(j) ==
    /\ pc[j] = "upd_output"
    /\ IF j \in DOMAIN jobs
       THEN /\ jobs' = [jobs EXCEPT ![j].output_file = upd[j].output_file]
            /\ IF upd[j].wasabi_url # None
               THEN /\ pc' = [pc EXCEPT ![j] = "upd_url"]
                    /\ UNCHANGED upd
               ELSE /\ pc' = [pc EXCEPT ![j] = Return(upd[j].site)]
                    /\ upd' = [upd EXCEPT ![j] = NoCall]
            /\ UNCHANGED escaped
       ELSE /\ KeyError(j)
            /\ UNCHANGED jobs
    /\ UNCHANGED <<wasabiEnabled, disk, issued, loop, child, fetch, place,
                   dl, served, raised>>

\* if wasabi_url: self.jobs[job_id]["wasabi_url"] = wasabi_url
update_job_url(j) ==
    /\ pc[j] = "upd_url"
    /\ IF j \in DOMAIN jobs
       THEN /\ jobs' = [jobs EXCEPT ![j].wasabi_url = upd[j].wasabi_url]
            /\ pc' = [pc EXCEPT ![j] = Return(upd[j].site)]
            /\ upd' = [upd EXCEPT ![j] = NoCall]
            /\ UNCHANGED escaped
       ELSE /\ KeyError(j)
            /\ UNCHANGED jobs
    /\ UNCHANGED <<wasabiEnabled, disk, issued, loop, child, fetch, place,
                   dl, served, raised>>

\* unlink_output without the inner try/except: a missing file raises into
\* `except Exception` of process_video, which records a failure
unlink_output_uncaught(j) ==
    /\ pc[j] = "unlink_out"
    /\ disk' = disk \ {OutputPath(j)}
    /\ IF unlink_raises(OutputPath(j))
       THEN /\ pc' = [pc EXCEPT ![j] = "upd_check"]
            /\ upd' = [upd EXCEPT ![j] =
                         Call("failed", MsgException, None, None, "handler")]
       ELSE /\ pc' = [pc EXCEPT ![j] = "finally"]
            /\ UNCHANGED upd
    /\ UNCHANGED <<wasabiEnabled, jobs, issued, loop, child, fetch,
                   place, escaped, dl, served, raised>>

\* output_path.unlink() after the upload, inside try/except Exception
unlink_output(j) ==
    /\ pc[j] = "unlink_out"
    /\ disk' = disk \ {OutputPath(j)}
    /\ raised' = (raised \/ Propagates(unlink_raises(OutputPath(j)),
                                       "except Exception"))
    /\ pc' = [pc EXCEPT ![j] = "finally"]
    /\ UNCHANGED <<wasabiEnabled, jobs, issued, loop, upd, child, fetch,
                   place, escaped, dl, served>>

\* finally: input_path.unlink() inside try/except: pass
unlink_input(j) ==
    /\ pc[j] = "finally"
    /\ disk' = disk \ {InputPath(j)}
    /\ raised' = (raised \/ Propagates(unlink_raises(InputPath(j)), "except"))
    /\ pc' = [pc EXCEPT ![j] = "done"]
    /\ UNCHANGED <<wasabiEnabled, jobs, issued, loop, upd, child, fetch,
                   place, escaped, dl, served>>

process_video(j) ==
    \/ start_tool(j)
    \/ tool_exit(j)
    \/ tool_timeout(j)
    \/ upload_to_wasabi(j)
    \/ update_job_check(j)
    \/ update_job_status(j)
    \/ update_job_message(j)
    \/ update_job_output(j)
    \/ update_job_url(j)
    \/ unlink_output(j)
    \/ unlink_input(j)

Next ==
    \/ \E j \in JobIds : process_video_endpoint(j)
    \/ \E j \in JobIds : process_url_begin(j)
    \/ \E j \in JobIds : process_url_finish(j)
    \/ \E j \in JobIds : get_status(j)
    \/ \E j \in JobIds : download_video(j)
    \/ \E j \in JobIds : cleanup_file_exists(j)
    \/ \E j \in JobIds : cleanup_file_unlink(j)
    \/ \E j \in JobIds : cleanup_job(j)
    \/ \E j \in JobIds : process_video(j)

Spec == Init /\ [][Next]_vars

\* The event loop runs the handler it is inside of; every started background
\* task is given a worker thread and every thread is scheduled again and
\* again; the fetch ends (timeout=300) and the child exits or is killed at
\* its deadline (timeout=3600).
FairSpec ==
    /\ Spec
    /\ \A j \in JobIds : WF_vars(process_url_finish(j))
    /\ \A j \in JobIds : WF_vars(process_video(j))

\* ---- properties ----
Terminal == {"completed", "failed"}

Rank(status) ==
    CASE status = "downloading" -> 0
      [] status = "processing" -> 1
      [] status \in Terminal -> 2

\* C1: in every step, a job whose record stays in the registry never moves
\* backward along downloading -> processing -> {completed, failed}, and a
\* record that is completed or failed keeps that state.
C1_StateMonotonic ==
    [][\A j \in DOMAIN jobs \cap DOMAIN jobs' :
         /\ Rank(jobs'[j].status) >= Rank(jobs[j].status)
         /\ jobs[j].status \in Terminal => jobs'[j].status = jobs[j].status]_vars

\* a job completed by the upload branch whose file a download's cleanup took
\* away before process_video reached its own unlink
C1_Witness ==
    \E j \in DOMAIN jobs :
        /\ jobs[j].status = "completed"
        /\ place[j] = "ok"
        /\ pc[j] = "unlink_out"
        /\ OutputPath(j) \notin disk

PlacementFailed == {"ClientError", "Exception"}

\* C2 (as claimed): a job whose tool execution or placement raised an
\* unexpected exception is failed once its task has ended.
C2_ExceptionEndsFailed ==
    \A j \in DOMAIN jobs :
        (child[j] = "nospawn" \/ place[j] = "Exception") /\ pc[j] = "done" =>
            jobs[j].status = "failed"

\* C2 (amended): under fair scheduling every job in the registry is eventually
\* completed, failed or discarded; a job whose tool raised instead of running
\* is, once its task has ended, failed with the exception's message; a job
\* whose placement raised is then completed with the degraded message.
C2_EventuallyTerminal ==
    /\ \A j \in JobIds :
         (j \in DOMAIN jobs) ~>
            (j \notin DOMAIN jobs \/ jobs[j].status \in Terminal)
    /\ [](\A j \in DOMAIN jobs :
            /\ child[j] = "nospawn" /\ pc[j] = "done" =>
                  jobs[j].status = "failed" /\ jobs[j].message = MsgException
            /\ place[j] = "Exception" /\ pc[j] = "done" =>
                  jobs[j].status = "completed" /\
                  jobs[j].message = MsgWasabiFailed)

\* the task of a job has ended after its upload raised an Exception
C2_Witness ==
    \E j \in DOMAIN jobs :
        /\ place[j] = "Exception"
        /\ pc[j] = "done"
        /\ jobs[j].status = "completed"
        /\ jobs[j].message = MsgWasabiFailed

\* C3: the step in which a submission hands out a job id (its background task
\* gets queued) ends with the event loop free and with get_status answering
\* 200 with state downloading or processing.
C3_NoSameThreadCompletion ==
    [][\A j \in JobIds :
         pc[j] = "none" /\ pc'[j] # "none" =>
            /\ loop' = Idle
            /\ j \in DOMAIN jobs'
            /\ jobs'[j].status \in {"downloading", "processing"}
            /\ pc'[j] = "queued"]_vars

C3_Witness ==
    \E j \in DOMAIN jobs :
        /\ pc[j] = "queued"
        /\ loop = Idle
        /\ status_response(j).code = 200
        /\ status_response(j).status = "processing"

\* C4: the step in which a URL fetch fails takes the record from downloading
\* to failed; from then on no background task, child process or placement
\* exists for the job and its record, while kept, is failed with the fetch
\* message.
C4_FetchFailureIsFinal ==
    [][\A j \in JobIds :
         /\ fetch[j] # "failed" /\ fetch'[j] = "failed" =>
               jobs[j].status = "downloading" /\ jobs'[j].status = "failed"
         /\ fetch'[j] = "failed" =>
               /\ pc'[j] = "none"
               /\ child'[j] = "none"
               /\ place'[j] = "none"
               /\ loop' # j
               /\ j \in DOMAIN jobs' =>
                     /\ jobs'[j].status = "failed"
                     /\ jobs'[j].message = MsgUrlFailed]_vars

C4_Witness ==
    \E j \in DOMAIN jobs :
        /\ fetch[j] = "failed"
        /\ jobs[j].status = "failed"
        /\ InputPath(j) \notin disk

\* C5: a job whose tool ran into the deadline has no running child and no
\* placement, and once its update_job call has returned its record, while
\* kept, is failed with the timeout message.
C5_TimeoutFails ==
    \A j \in JobIds :
        child[j] = "killed" =>
            /\ place[j] = "none"
            /\ pc[j] \notin {"tool", "upload", "unlink_out"}
            /\ upd[j].status \in {"", "failed"}
            /\ (pc[j] \in {"finally", "done"} /\ j \in DOMAIN jobs) =>
                  /\ jobs[j].status = "failed"
                  /\ jobs[j].message = MsgTimeout

C5_Witness ==
    \E j \in DOMAIN jobs :
        /\ child[j] = "killed"
        /\ pc[j] = "done"
        /\ jobs[j].status = "failed"
        /\ jobs[j].message = MsgTimeout

\* C6 (as claimed): a job whose upload succeeded ends completed with the
\* retrieval URL present and no local output path in its record.
C6_RemoteRecordHasNoLocalPath ==
    \A j \in DOMAIN jobs :
        place[j] = "ok" /\ pc[j] = "done" =>
            /\ jobs[j].status = "completed"
            /\ jobs[j].wasabi_url # None
            /\ jobs[j].output_file = None

\* C7: a job whose upload failed and whose update_job call has returned is,
\* while its record is kept, completed with the local path, the degraded
\* message and no URL; until a download was served its output file is on disk
\* and a download request is answered with the file.
C7_UploadFailureDegrades ==
    \A j \in DOMAIN jobs :
        place[j] \in PlacementFailed /\ pc[j] \in {"finally", "done"} =>
            /\ jobs[j].status = "completed"
            /\ jobs[j].message = MsgWasabiFailed
            /\ jobs[j].output_file = OutputPath(j)
            /\ jobs[j].wasabi_url = None
            /\ served[j] = 0 =>
                  OutputPath(j) \in disk /\ download_result(j) = "file"

C7_Witness ==
    \E j \in DOMAIN jobs :
        /\ place[j] \in PlacementFailed
        /\ pc[j] = "done"
        /\ jobs[j].status = "completed"
        /\ served[j] = 1

\* C8 (as claimed): once a job is completed or failed and no task of it is
\* left to run, its input file is not on disk.
C8_InputDeleted ==
    \A j \in DOMAIN jobs :
        jobs[j].status \in Terminal /\ pc[j] \in {"none", "done"} =>
            InputPath(j) \notin disk

\* C9 (as claimed): at most one download request per job is answered with
\* the file.
C9_SingleDelivery ==
    \A j \in JobIds : served[j] <= 1

\* the steps that delete a file outside a handler
RetentionStep(j) ==
    \/ cleanup_file_exists(j)
    \/ cleanup_file_unlink(j)
    \/ unlink_output(j)
    \/ unlink_input(j)

\* C10: no deletion ever raises into the operation around it; a deletion
\* step of cleanup_file or process_video leaves the registry as it is and
\* removes nothing but its own path, and nothing at all when its path is
\* already gone.
C10_DeletionIdempotent ==
    [][/\ ~raised'
       /\ \A j \in JobIds :
            RetentionStep(j) =>
               /\ jobs' = jobs
               /\ disk' \subseteq disk
               /\ disk \ disk' \subseteq {InputPath(j), OutputPath(j)}
               /\ (cleanup_file_unlink(j) \/ unlink_output(j)) /\
                     unlink_raises(OutputPath(j)) => disk' = disk
               /\ unlink_input(j) /\ unlink_raises(InputPath(j)) =>
                     disk' = disk]_vars

\* a cleanup_file past its exists() test while the file is already gone
C10_Witness ==
    \E j \in JobIds : dl[j].unlink > 0 /\ OutputPath(j) \notin disk

\* C11 (as claimed): a second discard of a job, whose record the first one
\* removed, is answered without error.
C11_DiscardAbsentIsNoError ==
    \A j \in issued :
        (j \notin DOMAIN jobs /\ (pc[j] # "none" \/ fetch[j] # "none")) =>
            cleanup_response(j).code = 200

\* C11 (amended): a discard of an id that is absent from the registry is
\* answered 404 "Job not found", and it changes neither registry nor disk.
C11_DiscardAbsentIsNotFound ==
    /\ [](\A j \in JobIds :
            j \notin DOMAIN jobs =>
               /\ cleanup_response(j).code = 404
               /\ cleanup_response(j).detail = "Job not found")
    /\ [][\A j \in JobIds :
            j \notin DOMAIN jobs /\ cleanup_job(j) => UNCHANGED <<jobs, disk>>]_vars

\* a job that was created and discarded, with the event loop free for a
\* second discard of the same id
C11_Witness ==
    \E j \in issued :
        /\ j \notin DOMAIN jobs
        /\ pc[j] # "none"
        /\ loop = Idle
        /\ cleanup_response(j).code = 404

\* C12: a discard of a job whose record names an output file that is no longer
\* on disk is answered 200, raises nothing, leaves the disk as it is and
\* removes the record, so that get_status then answers 404; and an id that
\* was given out and is absent from the registry stays absent.
C12_DiscardAfterOutputDeleted ==
    [][\A j \in JobIds :
         /\ (/\ j \in DOMAIN jobs
             /\ jobs[j].output_file # None
             /\ jobs[j].output_file \notin disk
             /\ cleanup_job(j)) =>
               /\ cleanup_response(j).code = 200
               /\ ~raised'
               /\ disk' = disk
               /\ j \notin DOMAIN jobs'
               /\ status_response(j)'.code = 404
         /\ (j \in issued /\ j \notin DOMAIN jobs) => j \notin DOMAIN jobs']_vars

\* a job discarded after its upload succeeded and process_video had removed
\* the local output
C12_Witness ==
    \E j \in issued :
        /\ j \notin DOMAIN jobs
        /\ place[j] = "ok"
        /\ pc[j] = "done"
        /\ served[j] = 0
        /\ status_response(j).code = 404

C14_NoPartialRecord ==
    \A j \in DOMAIN jobs :
        (ENABLED get_status(j) /\ jobs[j].status = "completed") =>
            (jobs[j].output_file # None \/ jobs[j].wasabi_url # None)

\* C15: while a job is being fetched, run through the tool or uploaded, a
\* status query for any job can be served.
C15_StatusNeverBlocked ==
    \A j \in DOMAIN jobs :
        (jobs[j].status = "downloading" \/ pc[j] \in {"tool", "upload"}) =>
            \A k \in JobIds : ENABLED get_status(k)

\* C16 (as claimed): every step that adds a record to the registry adds it
\* with status "downloading" and empty output fields, with no background
\* task of the job started.
C16_CreatedDownloading ==
    [][\A j \in JobIds :
         (j \notin DOMAIN jobs /\ j \in DOMAIN jobs') =>
            /\ jobs'[j].status = "downloading"
            /\ jobs'[j].output_file = None
            /\ jobs'[j].wasabi_url = None
            /\ pc'[j] \in {"none", "queued"}
            /\ child'[j] = "none"]_vars

\* C16 (amended): every step that adds a record adds it with empty output
\* fields and before any step of process_video for the job; the URL handler
\* adds it with status "downloading" (and then fetches), the upload handler,
\* which has saved the input by then, with status "processing" (and queues
\* process_video).
C16_CreatedBeforeProcessing ==
    [][\A j \in JobIds :
         (j \notin DOMAIN jobs /\ j \in DOMAIN jobs') =>
            /\ jobs'[j].output_file = None
            /\ jobs'[j].wasabi_url = None
            /\ pc[j] = "none"
            /\ child'[j] = "none"
            /\ fetch'[j] = "none"
            /\ IF loop' = j
               THEN jobs'[j].status = "downloading" /\ pc'[j] = "none"
               ELSE /\ jobs'[j].status = "processing"
                    /\ pc'[j] = "queued"
                    /\ InputPath(j) \in disk']_vars

\* an upload just accepted: the record is there, process_video is queued and
\* has not started
C16_Witness ==
    \E j \in DOMAIN jobs :
        /\ jobs[j].status = "processing"
        /\ jobs[j].output_file = None
        /\ pc[j] = "queued"
        /\ child[j] = "none"
        /\ fetch[j] = "none"

\* C17: no output file of a discarded job (a job that ran or was fetched and
\* whose id has no record) is on disk.
C17_DiscardedLeavesNoOutput ==
    \A j \in issued :
        (j \notin DOMAIN jobs /\ (pc[j] # "none" \/ fetch[j] # "none")) =>
            OutputPath(j) \notin disk

\* C18: a call of update_job by process_video that starts when the record is
\* gone returns at once to the statement after the call, writes nothing and
\* raises nothing; no step puts back the record of an id that was given out;
\* and process_video ends only with the input file deleted.
C18_UpdateAfterDiscardIsNoOp ==
    [][\A j \in JobIds :
         /\ (pc[j] = "upd_check" /\ j \notin DOMAIN jobs /\ pc'[j] # pc[j]) =>
               /\ pc'[j] = Return(upd[j].site)
               /\ jobs' = jobs
               /\ escaped' = escaped
               /\ raised' = raised
         /\ (j \in issued /\ j \notin DOMAIN jobs) => j \notin DOMAIN jobs'
         /\ (j \notin DOMAIN jobs /\ pc'[j] = "done") =>
               InputPath(j) \notin disk']_vars

\* process_video ran to its end for a job discarded before the output path
\* was recorded: the output is still on disk, the input is not, and no
\* exception left process_video
C18_Witness ==
    \E j \in issued :
        /\ j \notin DOMAIN jobs
        /\ pc[j] = "done"
        /\ child[j] = "exited"
        /\ j \notin escaped
        /\ OutputPath(j) \in disk
        /\ InputPath(j) \notin disk

\* C19: a completed record with a retrieval URL has no local output left, and
\* a download request is answered 410.
C19_UrlMeansLocalDeleted ==
    \A j \in DOMAIN jobs :
        (jobs[j].status = "completed" /\ jobs[j].wasabi_url # None) =>
            /\ OutputPath(j) \notin disk
            /\ download_response(j).code = 410

\* C20: the output_file reported by get_status, when there is one, is a file
\* on disk.
C20_ReportedPathExists ==
    \A j \in DOMAIN jobs :
        status_response(j).output_file # None =>
            status_response(j).output_file \in disk
====
